---- MODULE Spec2Model ----
(***************************************************************************)
(* ScheduleCache (backend/app/services/schedule_cache.py): the process-    *)
(* wide schedule cache with its single-flight refresh.                     *)
(*                                                                         *)
(* Callers are asyncio tasks on one event loop.  A task runs without       *)
(* interruption from one suspension point to the next, so every action     *)
(* below is one such run: from the call of get_schedule to its first       *)
(* suspension, from a wake-up in _wait_for_update to the return, from the  *)
(* completion of _fetch_schedule to the return.                            *)
(*                                                                         *)
(* Time is counted in whole seconds.  The poll interval of                 *)
(* _wait_for_update (0.5 s) is shorter than one unit: a waiter whose loop  *)
(* condition lets it leave does so before the clock advances.              *)
(***************************************************************************)
EXTENDS Integers, Sequences, FiniteSets, TLC

\* ------------------------------------------------------------- bounds --
NumCallers == 3        \* callers of get_schedule, one call each
MaxTicks == 1          \* clock advances in one behaviour

Callers == 1..NumCallers

\* -------------------------------------------------- program constants --
timeout == 60                         \* _wait_for_update(timeout=60), seconds
cache_minutes == 15                   \* timedelta(minutes=15)
cache_duration == cache_minutes * 60  \* in seconds
DaySeconds == 24 * 60 * 60

None == [absent |-> TRUE]     \* Python None where a dict is expected
NoTime == 0 - 1               \* Python None where a datetime is expected
Raised == [raised |-> TRUE]   \* the call ended with an exception, not a value

\* The amounts by which the clock advances in one step: past the wait
\* bound, up to the time to live, past the time to live.
TickSteps == {timeout + 1, cache_duration, cache_duration + 1}

\* ------------------------------------- what the scraped page can hold --
\* A clinic card as found on the page: its name and its day blocks, each
\* with the texts of its time buttons; raises tells whether parsing the
\* card raises an exception.
\* A key that a dict may lack (clinic_name, day, date are set only when
\* their element is found) is held as a sequence: <<>> when the key is
\* missing, <<v>> when it is set.  An Optional[str] argument is held the
\* same way, <<>> for None.
CardA == [clinic_name |-> <<"Alatau">>, raises |-> FALSE,
          days |-> << [day |-> <<"Mon">>, date |-> <<"23 Oct">>,
                       times |-> <<"09:00", "14:00">>],
                      [day |-> <<"Tue">>, date |-> <<"24 Oct">>, times |-> <<>>] >>]
BadCard == [clinic_name |-> <<"Broken">>, raises |-> TRUE, days |-> <<>>]
Pages == { <<>>, <<CardA>>, <<BadCard>> }

\* More cards, for the searches: a card without a name element, whose
\* first day block has no date header; a card whose day blocks all lack
\* times; a second named clinic.
CardN == [clinic_name |-> <<>>, raises |-> FALSE,
          days |-> << [day |-> <<>>, date |-> <<>>, times |-> <<"9:30", "18:00">>],
                      [day |-> <<"Tue">>, date |-> <<"24 Oct">>, times |-> <<"10:00">>] >>]
CardE == [clinic_name |-> <<"Medline">>, raises |-> FALSE,
          days |-> << [day |-> <<"Mon">>, date |-> <<"23 Oct">>, times |-> <<>>] >>]
CardB == [clinic_name |-> <<"Almaty Med">>, raises |-> FALSE,
          days |-> << [day |-> <<"Mon">>, date |-> <<"23 Oct">>, times |-> <<"14:00">>] >>]
SearchPages == { <<CardA, CardN, CardE, CardB>>, <<CardE, CardN>> }

\* The arguments of search_slots that are tried
Days == { <<>>, <<"">>, <<"mon">>, <<"OCT">>, <<"24">> }
TimesFrom == { <<>>, <<"">>, <<"10:00">> }
TimesTo == { <<>>, <<"">>, <<"14:00">>, <<"18:00">> }
ClinicNames == { <<>>, <<"">>, <<"ALA">>, <<"med">> }
Queries == [day : Days, time_from : TimesFrom, time_to : TimesTo,
            clinic_name : ClinicNames]
NoQuery == [day |-> <<>>, time_from |-> <<>>, time_to |-> <<>>,
            clinic_name |-> <<>>]

\* What one run of the fetcher meets: a page load timeout, any other
\* exception, or a page that loads.
RawOutcomes ==
  { [kind |-> k, cards |-> <<>>] : k \in {"page_load_timeout", "exception"} }
  \cup { [kind |-> "page", cards |-> p] : p \in Pages }

\* How the write of the cache file ends: written, or an exception on the
\* way to the file (mkdir, open).
WriteOutcomes == {"ok", "failed"}

VARIABLES
  now,            \* datetime.utcnow(), seconds
  ticks,          \* clock advances so far
  _data,          \* self._data
  _last_update,   \* self._last_update
  _is_updating,   \* self._is_updating
  _lock,          \* ScheduleCache._lock: [locked, waiters]
  cache_file,     \* contents of data/clinic_schedule_cache.json
  pc,             \* where each caller is in get_schedule
  force_refresh,  \* the argument of each caller's current or last call
  start,          \* local variable of _wait_for_update
  ret,            \* the value the caller's last call returned
  hist,           \* per call: which fetch it joined, how it ended
  nfetch,         \* invocations of _fetch_schedule so far
  fetch_t0,       \* when the fetch in flight was started
  query,          \* the arguments of the last call of search_slots
  results,        \* what the last call of search_slots returned
  write_attempts  \* calls of _save_to_file so far

vars == <<now, ticks, _data, _last_update, _is_updating, _lock, cache_file,
          pc, force_refresh, start, ret, hist, nfetch, fetch_t0,
          query, results, write_attempts>>

\* what the success branch of a refresh writes, and nothing else does
cacheVars == <<_data, _last_update, cache_file, write_attempts>>
clockVars == <<now, ticks>>
searchVars == <<query, results>>

\* batch: the call was not forced and was issued at an instant at which the
\* cache was stale and no refresh in flight, together with the call that
\* became the refresher.  ep: the fetch the call started or found in flight.
\* how: the way the call ended -- "hit", "recheck", "waited" (the refresh it
\* waited for ended), "waited_on" (a later refresh ended), "timeout",
\* "refreshed", "failed" (the fetcher returned None), "raised".
NoHist == [batch |-> FALSE, ep |-> 0, how |-> "none"]

Init ==
  /\ now = 0
  /\ ticks = 0
  /\ _data = None
  /\ _last_update = NoTime
  /\ _is_updating = FALSE
  /\ _lock = [locked |-> FALSE, waiters |-> <<>>]
  /\ cache_file = None
  /\ pc = [c \in Callers |-> "idle"]
  /\ force_refresh = [c \in Callers |-> FALSE]
  /\ start = [c \in Callers |-> NoTime]
  /\ ret = [c \in Callers |-> None]
  /\ hist = [c \in Callers |-> NoHist]
  /\ nfetch = 0
  /\ fetch_t0 = NoTime
  /\ query = NoQuery
  /\ results = <<>>
  /\ write_attempts = 0

\* ------------------------------------------------------- pure helpers --
\* timedelta.seconds: the seconds field of a normalised timedelta
seconds(delta) == delta % DaySeconds

\* is_stale that takes a cache never filled for fresh
is_stale_absent_fresh ==
  IF _last_update = NoTime THEN FALSE
  ELSE now - _last_update > cache_duration

\* is_stale with >= for >
is_stale_at_ttl ==
  IF _last_update = NoTime THEN TRUE
  ELSE now - _last_update >= cache_duration

is_stale ==
  IF _last_update = NoTime THEN TRUE
  ELSE now - _last_update > cache_duration

\* fresh_hit that does not look at force_refresh
fresh_hit_ignores_force(f) == ~is_stale /\ _data # None

\* the condition of lines 61 and 74
fresh_hit(f) == ~f /\ ~is_stale /\ _data # None

RECURSIVE parse_days(_)

\* parse_days that appends every day block
parse_days_keeps_empty(blocks) ==
  IF blocks = <<>> THEN <<>>
  ELSE <<Head(blocks)>> \o parse_days(Tail(blocks))

\* the schedule of one card: day blocks without times are not appended
parse_days(blocks) ==
  IF blocks = <<>> THEN <<>>
  ELSE LET b == Head(blocks)
           rest == parse_days(Tail(blocks))
       IN IF b.times # <<>> THEN <<b>> \o rest ELSE rest

\* the loop over the clinic cards: a card whose parsing raises is skipped
RECURSIVE parse_cards(_)
parse_cards(cards) ==
  IF cards = <<>> THEN <<>>
  ELSE LET card == Head(cards)
           rest == parse_cards(Tail(cards))
       IN IF card.raises THEN rest
          ELSE <<[clinic_name |-> card.clinic_name,
                  schedule |-> parse_days(card.days)]>> \o rest

\* _fetch_schedule without the outer `except Exception`
_fetch_schedule_uncaught(raw, n) ==
  IF raw.kind = "page_load_timeout" THEN None
  ELSE IF raw.kind = "exception" THEN Raised
  ELSE LET all_clinics == parse_cards(raw.cards)
       IN [timestamp |-> n,
           total_clinics |-> Len(all_clinics),
           clinics |-> all_clinics]

\* _fetch_schedule: None on a page load timeout or any Exception, else the
\* dict built from the page.  utcnow() has microsecond resolution, so no
\* two fetches stamp their dict alike: the timestamp is represented by n,
\* the ordinal of the fetch.
_fetch_schedule(raw, n) ==
  IF raw.kind \in {"page_load_timeout", "exception"} THEN None
  ELSE LET all_clinics == parse_cards(raw.cards)
       IN [timestamp |-> n,
           total_clinics |-> Len(all_clinics),
           clinics |-> all_clinics]

\* `if new_data:` -- None is false, a dict that has keys is true
truthy(new_data) == new_data # None

\* _save_to_file: what the file holds afterwards; the exception of a
\* failed write is caught inside
_save_to_file(data, w, old) ==
  IF w = "ok" THEN data ELSE old

\* ------------------------------------------------------------ strings --
\* The characters used, in the order of their code points
Alphabet == " 0123456789:ABCDEFGHIJKLMNOPQRSTUVWXYZabcdefghijklmnopqrstuvwxyz"
FirstUpper == 13
LastUpper == 38

\* the place of a one-character string in Alphabet
code(ch) == CHOOSE i \in 1..Len(Alphabet) : SubSeq(Alphabet, i, i) = ch

lower_char(ch) ==
  IF code(ch) >= FirstUpper /\ code(ch) <= LastUpper
  THEN SubSeq(Alphabet, code(ch) + 26, code(ch) + 26)
  ELSE ch

\* str.lower()
RECURSIVE lower(_)
lower(s) ==
  IF s = "" THEN ""
  ELSE lower_char(SubSeq(s, 1, 1)) \o lower(SubSeq(s, 2, Len(s)))

\* `x in y` on strings: x occurs in y; the empty string occurs in every
\* string
contains(x, y) ==
  \E i \in 1..(Len(y) - Len(x) + 1) : SubSeq(y, i, i + Len(x) - 1) = x

\* a <= b on strings: by code point from the left, a proper prefix first
RECURSIVE str_le(_, _)
str_le(a, b) ==
  IF a = "" THEN TRUE
  ELSE IF b = "" THEN FALSE
  ELSE LET ca == code(SubSeq(a, 1, 1))
           cb == code(SubSeq(b, 1, 1))
       IN IF ca < cb THEN TRUE
          ELSE IF ca > cb THEN FALSE
          ELSE str_le(SubSeq(a, 2, Len(a)), SubSeq(b, 2, Len(b)))

\* dict.get(key, default)
get(o, default) == IF o = <<>> THEN default ELSE o[1]

\* `if arg:` for an Optional[str]: None and "" are false
given(arg) == arg # <<>> /\ arg[1] # ""

\* ------------------------------------------------------- search_slots --
RECURSIVE filter_times(_, _, _)

\* filter_times whose upper bound is exclusive
filter_times_exclusive(times, time_from, time_to) ==
  IF times = <<>> THEN <<>>
  ELSE LET t == Head(times)
           rest == filter_times(Tail(times), time_from, time_to)
       IN IF /\ (~given(time_from) \/ str_le(time_from[1], t))
             /\ (~given(time_to) \/ (str_le(t, time_to[1]) /\ t # time_to[1]))
          THEN <<t>> \o rest
          ELSE rest

\* the list comprehension of lines 271-274
filter_times(times, time_from, time_to) ==
  IF times = <<>> THEN <<>>
  ELSE LET t == Head(times)
           rest == filter_times(Tail(times), time_from, time_to)
       IN IF /\ (~given(time_from) \/ str_le(time_from[1], t))
             /\ (~given(time_to) \/ str_le(t, time_to[1]))
          THEN <<t>> \o rest
          ELSE rest

\* day_passes that looks at the day label only
day_passes_label_only(day_schedule, day) ==
  IF given(day)
  THEN contains(lower(day[1]), lower(get(day_schedule.day, "")))
  ELSE TRUE

\* lines 263-267: the day filter lets day_schedule through
day_passes(day_schedule, day) ==
  IF given(day)
  THEN LET day_lower == lower(day[1])
       IN ~ (/\ ~contains(day_lower, lower(get(day_schedule.day, "")))
             /\ ~contains(day_lower, lower(get(day_schedule.date, ""))))
  ELSE TRUE

\* clinic_passes that compares without lower()
clinic_passes_case_sensitive(clinic, clinic_name) ==
  ~ (given(clinic_name)
     /\ ~contains(clinic_name[1], get(clinic.clinic_name, "")))

\* line 259: the clinic filter lets clinic through
clinic_passes(clinic, clinic_name) ==
  ~ (given(clinic_name)
     /\ ~contains(lower(clinic_name[1]), lower(get(clinic.clinic_name, ""))))

\* The inner loop (lines 262-286) from the di-th day of the ci-th clinic
\* on.  clinic_idx and day_idx are not keys of the dict the code appends:
\* they record what the record was made from.
RECURSIVE search_days(_, _, _, _)
search_days(clinic, ci, di, q) ==
  IF di > Len(clinic.schedule) THEN <<>>
  ELSE LET day_schedule == clinic.schedule[di]
           rest == search_days(clinic, ci, di + 1, q)
       IN IF ~day_passes(day_schedule, q.day) THEN rest
          ELSE LET times == IF given(q.time_from) \/ given(q.time_to)
                            THEN filter_times(day_schedule.times,
                                              q.time_from, q.time_to)
                            ELSE day_schedule.times
               IN IF times # <<>>
                  THEN << [clinic_name |-> clinic.clinic_name,
                           day |-> day_schedule.day,
                           date |-> day_schedule.date,
                           available_times |-> times,
                           clinic_idx |-> ci,
                           day_idx |-> di] >> \o rest
                  ELSE rest

RECURSIVE search_clinics(_, _, _)

\* search_clinics that puts the records of the later clinics first
search_clinics_reversed(clinics, ci, q) ==
  IF ci > Len(clinics) THEN <<>>
  ELSE LET clinic == clinics[ci]
           rest == search_clinics(clinics, ci + 1, q)
       IN IF ~clinic_passes(clinic, q.clinic_name) THEN rest
          ELSE rest \o search_days(clinic, ci, 1, q)

\* the outer loop (lines 258-286) from the ci-th clinic on
search_clinics(clinics, ci, q) ==
  IF ci > Len(clinics) THEN <<>>
  ELSE LET clinic == clinics[ci]
           rest == search_clinics(clinics, ci + 1, q)
       IN IF ~clinic_passes(clinic, q.clinic_name) THEN rest
          ELSE search_days(clinic, ci, 1, q) \o rest

\* what search_slots returns for the cached data
found(data, q) ==
  IF data = None THEN <<>> ELSE search_clinics(data.clinics, 1, q)

age_sentinel == 9999

\* _get_age_minutes that rounds up
_get_age_minutes_rounds_up ==
  IF _last_update = NoTime THEN age_sentinel
  ELSE (now - _last_update + 59) \div 60

\* _get_age_minutes: int() of the elapsed seconds over 60
_get_age_minutes ==
  IF _last_update = NoTime THEN age_sentinel
  ELSE (now - _last_update) \div 60

\* ---------------------------------------------- search_available_slots --
\* The reply of the tool search_available_slots (schedule_search.py, lines
\* 51-65) when its get_schedule() has returned a dict: search_slots and
\* _get_age_minutes read self._data and self._last_update in the same run
\* of the task, no await in between.
results_limit == 10
search_available_slots(q) ==
  LET res == found(_data, q)
  IN [found |-> Len(res),
      data_age_minutes |-> _get_age_minutes,
      results |-> SubSeq(res, 1, IF Len(res) < results_limit THEN Len(res)
                                 ELSE results_limit)]

\* the arguments the tool is called with: no filter (the filters are
\* checked with search_slots itself)
ToolQueries == { NoQuery }

\* ------------------------------------------------------------ actions --
\* `return value` of get_schedule; h is hist with the call's record so far
Return(c, value, how, h) ==
  /\ pc' = [pc EXCEPT ![c] = "done"]
  /\ ret' = [ret EXCEPT ![c] = value]
  /\ start' = [start EXCEPT ![c] = NoTime]
  /\ hist' = [h EXCEPT ![c].how = how]

\* under_lock that goes into the fetcher without raising the flag
under_lock_no_flag(c, f, q, h) ==
  IF fresh_hit(f)
  THEN /\ _lock' = [locked |-> FALSE, waiters |-> q]
       /\ Return(c, _data, "recheck", h)
       /\ UNCHANGED <<_is_updating, nfetch, fetch_t0>>
  ELSE /\ _lock' = [locked |-> TRUE, waiters |-> q]
       /\ UNCHANGED _is_updating
       /\ nfetch' = nfetch + 1
       /\ fetch_t0' = now
       /\ pc' = [pc EXCEPT ![c] = "fetching"]
       /\ hist' = [h EXCEPT ![c].ep = nfetch + 1, ![c].batch = ~f]
       /\ UNCHANGED <<ret, start>>

\* Lines 73-80, run by a caller that holds the lock; q is the queue of the
\* lock's waiters once the caller has it.
under_lock(c, f, q, h) ==
  IF fresh_hit(f)
  THEN /\ _lock' = [locked |-> FALSE, waiters |-> q]
       /\ Return(c, _data, "recheck", h)
       /\ UNCHANGED <<_is_updating, nfetch, fetch_t0>>
  ELSE /\ _lock' = [locked |-> TRUE, waiters |-> q]
       /\ _is_updating' = TRUE
       /\ nfetch' = nfetch + 1
       /\ fetch_t0' = now
       /\ pc' = [pc EXCEPT ![c] = "fetching"]
       /\ hist' = [h EXCEPT ![c].ep = nfetch + 1, ![c].batch = ~f]
       /\ UNCHANGED <<ret, start>>

\* the refresher of the fetch in flight belongs to a batch
refresher_batch == \E r \in Callers : pc[r] = "fetching" /\ hist[r].batch

\* wait_or_refresh that does not fetch again once a fetch has failed
wait_or_refresh_backs_off(c, f, h) ==
  IF _is_updating
  THEN /\ pc' = [pc EXCEPT ![c] = "waiting"]
       /\ start' = [start EXCEPT ![c] = now]
       /\ hist' = [h EXCEPT ![c].ep = nfetch,
                             ![c].batch = ~f /\ now = fetch_t0 /\ refresher_batch]
       /\ UNCHANGED <<ret, _is_updating, _lock, nfetch, fetch_t0>>
  ELSE IF \E d \in Callers : hist[d].how = "failed"
  THEN /\ Return(c, _data, "hit", h)
       /\ UNCHANGED <<_is_updating, _lock, nfetch, fetch_t0>>
  ELSE under_lock(c, f, <<>>, h)

\* wait_or_refresh in which a forced call does not wait for the refresh in
\* flight but goes for the lock
wait_or_refresh_forced_to_lock(c, f, h) ==
  IF _is_updating /\ ~f
  THEN /\ pc' = [pc EXCEPT ![c] = "waiting"]
       /\ start' = [start EXCEPT ![c] = now]
       /\ hist' = [h EXCEPT ![c].ep = nfetch,
                             ![c].batch = ~f /\ now = fetch_t0 /\ refresher_batch]
       /\ UNCHANGED <<ret, _is_updating, _lock, nfetch, fetch_t0>>
  ELSE IF ~_lock.locked /\ _lock.waiters = <<>>
  THEN under_lock(c, f, <<>>, h)
  ELSE /\ _lock' = [_lock EXCEPT !.waiters = Append(@, c)]
       /\ pc' = [pc EXCEPT ![c] = "lock_wait"]
       /\ hist' = h
       /\ UNCHANGED <<ret, start, _is_updating, nfetch, fetch_t0>>

\* wait_or_refresh with a forced call that neither waits for the refresh in
\* flight nor for the lock
wait_or_refresh_forced_bypass(c, f, h) ==
  IF _is_updating /\ ~f
  THEN /\ pc' = [pc EXCEPT ![c] = "waiting"]
       /\ start' = [start EXCEPT ![c] = now]
       /\ hist' = [h EXCEPT ![c].ep = nfetch,
                             ![c].batch = ~f /\ now = fetch_t0 /\ refresher_batch]
       /\ UNCHANGED <<ret, _is_updating, _lock, nfetch, fetch_t0>>
  ELSE under_lock(c, f, <<>>, h)

\* Lines 65-72: what a call does that is not served from the fresh cache
wait_or_refresh(c, f, h) ==
  IF _is_updating
  THEN \* _wait_for_update: start is taken, the loop condition holds and no
       \* time has passed, so the caller sleeps
       /\ pc' = [pc EXCEPT ![c] = "waiting"]
       /\ start' = [start EXCEPT ![c] = now]
       /\ hist' = [h EXCEPT ![c].ep = nfetch,
                             ![c].batch = ~f /\ now = fetch_t0 /\ refresher_batch]
       /\ UNCHANGED <<ret, _is_updating, _lock, nfetch, fetch_t0>>
  ELSE IF ~_lock.locked /\ _lock.waiters = <<>>
  THEN \* the lock is free: acquire() does not suspend
       under_lock(c, f, <<>>, h)
  ELSE \* the lock is held: acquire() suspends
       /\ _lock' = [_lock EXCEPT !.waiters = Append(@, c)]
       /\ pc' = [pc EXCEPT ![c] = "lock_wait"]
       /\ hist' = h
       /\ UNCHANGED <<ret, start, _is_updating, nfetch, fetch_t0>>

\* get_schedule(force_refresh=f), from the call to its first suspension
\* or to its return.  Each caller makes one call; the callers are numbered
\* in the order of their calls.
get_schedule(c, f) ==
  /\ pc[c] = "idle"
  /\ \A b \in Callers : b < c => pc[b] # "idle"
  /\ force_refresh' = [force_refresh EXCEPT ![c] = f]
  /\ UNCHANGED <<clockVars, cacheVars, searchVars>>
  /\ LET h0 == [hist EXCEPT ![c] = NoHist]
     IN IF fresh_hit(f)
        THEN /\ Return(c, _data, "hit",
                       [h0 EXCEPT ![c].ep = IF _is_updating THEN nfetch ELSE 0])
             /\ UNCHANGED <<_is_updating, _lock, nfetch, fetch_t0>>
        ELSE wait_or_refresh(c, f, h0)

\* The loop of _wait_for_update, evaluated at time t, lets the caller go:
\* the flag is down, or more than timeout whole seconds have gone by
\* since start.
lets_go(c, t) ==
  \/ ~_is_updating
  \/ seconds(t - start[c]) > timeout

wait_over(c) == lets_go(c, now)

\* resume in which a waiter whose wait timed out lowers the flag
resume_timeout_cancels(c) ==
  /\ UNCHANGED <<clockVars, cacheVars, force_refresh, searchVars>>
  /\ pc[c] = "waiting"
  /\ wait_over(c)
  /\ Return(c, _data,
            IF _is_updating THEN "timeout"
            ELSE IF hist[c].ep = nfetch THEN "waited" ELSE "waited_on",
            hist)
  /\ _is_updating' = FALSE
  /\ UNCHANGED <<_lock, nfetch, fetch_t0>>

\* resume in which a waiter whose wait timed out goes on to fetch
resume_timeout_refetch(c) ==
  /\ UNCHANGED <<clockVars, cacheVars, force_refresh, searchVars>>
  /\ pc[c] = "waiting"
  /\ wait_over(c)
  /\ IF _is_updating
     THEN /\ pc' = [pc EXCEPT ![c] = "fetching"]
          /\ nfetch' = nfetch + 1
          /\ UNCHANGED <<ret, start, hist, _is_updating, _lock, fetch_t0>>
     ELSE /\ Return(c, _data, "waited", hist)
          /\ UNCHANGED <<_is_updating, _lock, nfetch, fetch_t0>>

\* resume in which a waiter whose wait timed out returns None
resume_timeout_absent(c) ==
  /\ UNCHANGED <<clockVars, cacheVars, force_refresh, searchVars>>
  /\ pc[c] = "waiting"
  /\ wait_over(c)
  /\ Return(c, IF _is_updating THEN None ELSE _data,
            IF _is_updating THEN "timeout"
            ELSE IF hist[c].ep = nfetch THEN "waited" ELSE "waited_on",
            hist)
  /\ UNCHANGED <<_is_updating, _lock, nfetch, fetch_t0>>

\* A suspended caller runs again.  A waiter leaves _wait_for_update and
\* returns self._data (lines 68-69, 101-106); a caller suspended in
\* acquire() gets the lock and goes on under it (lines 72-80).
resume(c) ==
  /\ UNCHANGED <<clockVars, cacheVars, force_refresh, searchVars>>
  /\ \/ /\ pc[c] = "waiting"
        /\ wait_over(c)
        /\ Return(c, _data,
                  IF _is_updating THEN "timeout"
                  ELSE IF hist[c].ep = nfetch THEN "waited" ELSE "waited_on",
                  hist)
        /\ UNCHANGED <<_is_updating, _lock, nfetch, fetch_t0>>
     \/ /\ pc[c] = "lock_wait"
        /\ ~_lock.locked
        /\ _lock.waiters # <<>>
        /\ Head(_lock.waiters) = c
        /\ under_lock(c, force_refresh[c], Tail(_lock.waiters), hist)

\* refresh_done that installs the new Snapshot and leaves the time stamp
\* for later
refresh_done_stamps_later(c, raw, w) ==
  /\ pc[c] = "fetching"
  /\ LET new_data == _fetch_schedule(raw, nfetch)
     IN IF truthy(new_data)
        THEN /\ _data' = new_data
             /\ UNCHANGED _last_update
             /\ cache_file' = _save_to_file(new_data, w, cache_file)
             /\ write_attempts' = write_attempts + 1
             /\ Return(c, new_data, "refreshed", hist)
        ELSE /\ UNCHANGED cacheVars
             /\ Return(c, _data, "failed", hist)
  /\ _is_updating' = FALSE
  /\ _lock' = [_lock EXCEPT !.locked = FALSE]
  /\ fetch_t0' = NoTime
  /\ UNCHANGED <<clockVars, force_refresh, nfetch, searchVars>>

\* refresh_done that writes the file after a failed fetch as well
refresh_done_writes_on_failure(c, raw, w) ==
  /\ pc[c] = "fetching"
  /\ LET new_data == _fetch_schedule(raw, nfetch)
     IN IF truthy(new_data)
        THEN /\ _data' = new_data
             /\ _last_update' = now
             /\ cache_file' = _save_to_file(new_data, w, cache_file)
             /\ write_attempts' = write_attempts + 1
             /\ Return(c, new_data, "refreshed", hist)
        ELSE /\ UNCHANGED <<_data, _last_update>>
             /\ cache_file' = _save_to_file(_data, w, cache_file)
             /\ write_attempts' = write_attempts + 1
             /\ Return(c, _data, "failed", hist)
  /\ _is_updating' = FALSE
  /\ _lock' = [_lock EXCEPT !.locked = FALSE]
  /\ fetch_t0' = NoTime
  /\ UNCHANGED <<clockVars, force_refresh, nfetch, searchVars>>

\* refresh_done that stamps self._last_update after a failed fetch too
refresh_done_stamps_failure(c, raw, w) ==
  /\ pc[c] = "fetching"
  /\ LET new_data == _fetch_schedule(raw, nfetch)
     IN IF truthy(new_data)
        THEN /\ _data' = new_data
             /\ _last_update' = now
             /\ cache_file' = _save_to_file(new_data, w, cache_file)
             /\ write_attempts' = write_attempts + 1
             /\ Return(c, new_data, "refreshed", hist)
        ELSE /\ _last_update' = now
             /\ UNCHANGED <<_data, cache_file, write_attempts>>
             /\ Return(c, _data, "failed", hist)
  /\ _is_updating' = FALSE
  /\ _lock' = [_lock EXCEPT !.locked = FALSE]
  /\ fetch_t0' = NoTime
  /\ UNCHANGED <<clockVars, force_refresh, nfetch, searchVars>>

\* refresh_done that returns the Snapshot it replaced
refresh_done_returns_old(c, raw, w) ==
  /\ pc[c] = "fetching"
  /\ LET new_data == _fetch_schedule(raw, nfetch)
     IN IF truthy(new_data)
        THEN /\ _data' = new_data
             /\ _last_update' = now
             /\ cache_file' = _save_to_file(new_data, w, cache_file)
             /\ write_attempts' = write_attempts + 1
             /\ Return(c, _data, "refreshed", hist)
        ELSE /\ UNCHANGED cacheVars
             /\ Return(c, _data, "failed", hist)
  /\ _is_updating' = FALSE
  /\ _lock' = [_lock EXCEPT !.locked = FALSE]
  /\ fetch_t0' = NoTime
  /\ UNCHANGED <<clockVars, force_refresh, nfetch, searchVars>>

\* refresh_done that assigns self._data whatever the fetcher returned
refresh_done_installs_any(c, raw, w) ==
  /\ pc[c] = "fetching"
  /\ LET new_data == _fetch_schedule(raw, nfetch)
     IN IF truthy(new_data)
        THEN /\ _data' = new_data
             /\ _last_update' = now
             /\ cache_file' = _save_to_file(new_data, w, cache_file)
             /\ write_attempts' = write_attempts + 1
             /\ Return(c, new_data, "refreshed", hist)
        ELSE /\ _data' = new_data
             /\ UNCHANGED <<_last_update, cache_file, write_attempts>>
             /\ Return(c, new_data, "failed", hist)
  /\ _is_updating' = FALSE
  /\ _lock' = [_lock EXCEPT !.locked = FALSE]
  /\ fetch_t0' = NoTime
  /\ UNCHANGED <<clockVars, force_refresh, nfetch, searchVars>>

\* refresh_done that returns new_data, not self._data
refresh_done_returns_new(c, raw, w) ==
  /\ pc[c] = "fetching"
  /\ LET new_data == _fetch_schedule(raw, nfetch)
     IN IF truthy(new_data)
        THEN /\ _data' = new_data
             /\ _last_update' = now
             /\ cache_file' = _save_to_file(new_data, w, cache_file)
             /\ write_attempts' = write_attempts + 1
             /\ Return(c, new_data, "refreshed", hist)
        ELSE /\ UNCHANGED cacheVars
             /\ Return(c, new_data, "failed", hist)
  /\ _is_updating' = FALSE
  /\ _lock' = [_lock EXCEPT !.locked = FALSE]
  /\ fetch_t0' = NoTime
  /\ UNCHANGED <<clockVars, force_refresh, nfetch, searchVars>>

\* refresh_done in which the exception of a failed write leaves
\* _save_to_file and reaches the caller
refresh_done_write_unwinds(c, raw, w) ==
  /\ pc[c] = "fetching"
  /\ LET new_data == _fetch_schedule(raw, nfetch)
     IN IF truthy(new_data)
        THEN /\ _data' = new_data
             /\ _last_update' = now
             /\ cache_file' = _save_to_file(new_data, w, cache_file)
             /\ write_attempts' = write_attempts + 1
             /\ IF w = "ok" THEN Return(c, new_data, "refreshed", hist)
                ELSE Return(c, Raised, "raised", hist)
        ELSE /\ UNCHANGED cacheVars
             /\ Return(c, _data, "failed", hist)
  /\ _is_updating' = FALSE
  /\ _lock' = [_lock EXCEPT !.locked = FALSE]
  /\ fetch_t0' = NoTime
  /\ UNCHANGED <<clockVars, force_refresh, nfetch, searchVars>>

\* _fetch_schedule has returned: lines 80-97.  raw is what the fetcher met,
\* w how the write of the file ends.
refresh_done(c, raw, w) ==
  /\ pc[c] = "fetching"
  /\ LET new_data == _fetch_schedule(raw, nfetch)
     IN IF truthy(new_data)
        THEN /\ _data' = new_data
             /\ _last_update' = now
             /\ cache_file' = _save_to_file(new_data, w, cache_file)
             /\ write_attempts' = write_attempts + 1
             /\ Return(c, new_data, "refreshed", hist)
        ELSE /\ UNCHANGED cacheVars
             /\ Return(c, _data, "failed", hist)
  /\ _is_updating' = FALSE
  /\ _lock' = [_lock EXCEPT !.locked = FALSE]
  /\ fetch_t0' = NoTime
  /\ UNCHANGED <<clockVars, force_refresh, nfetch, searchVars>>

\* refresh_aborted that leaves `async with` without releasing the lock
refresh_aborted_keeps_lock(c) ==
  /\ pc[c] = "fetching"
  /\ Return(c, Raised, "raised", hist)
  /\ _is_updating' = FALSE
  /\ fetch_t0' = NoTime
  /\ UNCHANGED <<clockVars, cacheVars, force_refresh, nfetch, _lock, searchVars>>

\* refresh_aborted without the finally clause
refresh_aborted_no_finally(c) ==
  /\ pc[c] = "fetching"
  /\ Return(c, Raised, "raised", hist)
  /\ _lock' = [_lock EXCEPT !.locked = FALSE]
  /\ UNCHANGED <<clockVars, cacheVars, force_refresh, nfetch, _is_updating,
                 fetch_t0, searchVars>>

\* An exception that `except Exception` does not catch (CancelledError,
\* KeyboardInterrupt) leaves _fetch_schedule: the finally clause and the
\* exit of `async with` run, and the exception reaches the caller.
refresh_aborted(c) ==
  /\ pc[c] = "fetching"
  /\ Return(c, Raised, "raised", hist)
  /\ _is_updating' = FALSE
  /\ _lock' = [_lock EXCEPT !.locked = FALSE]
  /\ fetch_t0' = NoTime
  /\ UNCHANGED <<clockVars, cacheVars, force_refresh, nfetch, searchVars>>

\* A suspended caller that is about to run: a waiter whose loop lets it
\* go (its sleep ends within half a second), a caller the lock was handed to.
ready(c) ==
  \/ pc[c] = "waiting" /\ wait_over(c)
  \/ pc[c] = "lock_wait" /\ ~_lock.locked /\ Head(_lock.waiters) = c

\* The clock advances by d seconds.  No waiter sleeps through the moment
\* at which its loop lets it go.
Tick(d) ==
  /\ ticks < MaxTicks
  /\ \A c \in Callers : ~ready(c)
  /\ \A c \in Callers :
       pc[c] = "waiting" => \A t \in now .. now + d - 1 : ~lets_go(c, t)
  /\ now' = now + d
  /\ ticks' = ticks + 1
  /\ UNCHANGED <<cacheVars, _is_updating, _lock, pc, force_refresh, start,
                 ret, hist, nfetch, fetch_t0, searchVars>>

Next ==
  \/ \E c \in Callers, f \in BOOLEAN : get_schedule(c, f)
  \/ \E c \in Callers : resume(c)
  \/ \E c \in Callers, raw \in RawOutcomes, w \in WriteOutcomes : refresh_done(c, raw, w)
  \/ \E c \in Callers : refresh_aborted(c)
  \/ \E d \in TickSteps : Tick(d)

Spec == Init /\ [][Next]_vars

\* The fetcher terminates: a refresh in flight ends, one way or the other.
FetchEnds ==
  \E c \in Callers :
    \/ \E raw \in RawOutcomes, w \in WriteOutcomes : refresh_done(c, raw, w)
    \/ refresh_aborted(c)

FairSpec == Spec /\ WF_vars(FetchEnds)

\* search_slots that fetches when nothing is cached
search_slots_fetches(q) ==
  /\ query = NoQuery
  /\ query' = q
  /\ results' = found(_data, q)
  /\ nfetch' = IF _data = None THEN nfetch + 1 ELSE nfetch
  /\ UNCHANGED <<clockVars, cacheVars, _is_updating, _lock, pc, force_refresh,
                 start, ret, hist, fetch_t0>>

\* search_slots(day, time_from, time_to, clinic_name): a synchronous
\* method, one step whatever the callers of get_schedule are doing.  A
\* behaviour makes one search with filters, at any moment.
search_slots(q) ==
  /\ query = NoQuery
  /\ query' = q
  /\ results' = found(_data, q)
  /\ UNCHANGED <<clockVars, cacheVars, _is_updating, _lock, pc, force_refresh,
                 start, ret, hist, nfetch, fetch_t0>>

\* The searches are checked from the states of a cache that one caller
\* uses: empty, or holding the Snapshot of one earlier fetch of a page.
SearchSnapshots ==
  { _fetch_schedule([kind |-> "page", cards |-> p], 0) : p \in Pages \cup SearchPages }

SearchInit ==
  /\ now = 0
  /\ ticks = 0
  /\ _data \in {None} \cup SearchSnapshots
  /\ _last_update = IF _data = None THEN NoTime ELSE 0
  /\ _is_updating = FALSE
  /\ _lock = [locked |-> FALSE, waiters |-> <<>>]
  /\ cache_file = _data
  /\ pc = [c \in Callers |-> "idle"]
  /\ force_refresh = [c \in Callers |-> FALSE]
  /\ start = [c \in Callers |-> NoTime]
  /\ ret = [c \in Callers |-> None]
  /\ hist = [c \in Callers |-> NoHist]
  /\ nfetch = 0
  /\ fetch_t0 = NoTime
  /\ query = NoQuery
  /\ results = <<>>
  /\ write_attempts = 0

SearchNext ==
  \/ \E f \in BOOLEAN : get_schedule(1, f)
  \/ \E raw \in RawOutcomes, w \in WriteOutcomes : refresh_done(1, raw, w)
  \/ \E q \in Queries : search_slots(q)

SearchSpec == SearchInit /\ [][SearchNext]_vars

TypeOK ==
  /\ _is_updating \in BOOLEAN
  /\ pc \in [Callers -> {"idle", "waiting", "lock_wait", "fetching", "done"}]

\* ------------------------------------------------------------- claims --
\* the callers whose finished call invoked the fetcher, or who are in it
invoked(c) ==
  \/ pc[c] = "fetching"
  \/ pc[c] = "done" /\ hist[c].how \in {"refreshed", "failed", "raised"}

\* the calls of the batch whose refresher started fetch k
Batch(k) == { c \in Callers : hist[c].batch /\ hist[c].ep = k }

\* C1 as stated: of the unforced calls issued together while the cache is
\* stale and no refresh is in flight, exactly one invokes the fetcher, and
\* all of them that return a value return the same Snapshot value.
\* (Snapshots without clinics are left aside here: see C5.)
C1_SingleFlight ==
  \A k \in 1..nfetch :
    /\ Cardinality({ c \in Batch(k) : invoked(c) }) <= 1
    /\ \A c, d \in Batch(k) :
         /\ pc[c] = "done" /\ pc[d] = "done"
         /\ ret[c] # Raised /\ ret[d] # Raised
         /\ \A x \in {c, d} : ret[x] # None => ret[x].total_clinics > 0
         => ret[c] = ret[d]

\* C1 amended: exactly one call of the batch invokes the fetcher, and the
\* refresher and a waiter return the same Snapshot value when the
\* refresher's call returns a value, the waiter's wait did not time out and
\* no further refresh was started before the waiter resumed.
C1_SingleFlightAmended ==
  \A k \in 1..nfetch :
    /\ Cardinality({ c \in Batch(k) : invoked(c) }) <= 1
    /\ \A c, d \in Batch(k) :
         /\ pc[c] = "done" /\ pc[d] = "done"
         /\ hist[c].how \in {"refreshed", "failed", "waited"}
         /\ hist[d].how \in {"refreshed", "failed", "waited"}
         => ret[c] = ret[d]

\* a batch of two has returned one freshly fetched Snapshot
C1_Witness ==
  \E c, d \in Callers :
    /\ c # d /\ hist[c].batch /\ hist[d].batch /\ hist[c].ep = hist[d].ep
    /\ pc[c] = "done" /\ pc[d] = "done"
    /\ hist[c].how = "refreshed" /\ hist[d].how = "waited"
    /\ ret[c] = ret[d] /\ ret[c] # None

\* C2: at most one caller is executing the fetcher.
C2_OneFetchAtATime == Cardinality({ c \in Callers : pc[c] = "fetching" }) <= 1

\* a forced call has arrived while another caller is in the fetcher
C2_Witness ==
  \E c, d \in Callers :
    pc[c] = "fetching" /\ pc[d] = "waiting" /\ force_refresh[d]

\* the cache holds a Snapshot that is within its time to live
within_ttl ==
  /\ _data # None
  /\ _last_update # NoTime
  /\ now - _last_update <= cache_duration

\* C3: a call with force_refresh false that finds a Snapshot within its
\* time to live returns it in the same step, without invoking the fetcher
\* and without suspending, also while another caller's refresh is in
\* flight; so does the re-check made under the lock.
C3_FreshShortCircuit ==
  [][\A c \in Callers :
       /\ within_ttl
       /\ \/ get_schedule(c, FALSE)
          \/ pc[c] = "lock_wait" /\ ~force_refresh[c] /\ resume(c)
       => /\ pc'[c] = "done"
          /\ ret'[c] = _data
          /\ UNCHANGED <<nfetch, _is_updating, _data, _last_update>>]_vars

\* a call was served from the cache while a refresh was in flight
C3_Witness ==
  \E c \in Callers :
    pc[c] = "done" /\ hist[c].how = "hit" /\ hist[c].ep > 0 /\ ret[c] # None

\* the step in which caller c's fetch ends with the fetcher returning None
FetchFailedStep(c) ==
  pc[c] = "fetching" /\ pc'[c] = "done" /\ hist'[c].how = "failed"

\* C4: when the fetcher returns no data while an old Snapshot exists, the
\* call returns the old Snapshot, and _data and _last_update keep their
\* values; forced or not.
C4_GracefulDegradation ==
  [][\A c \in Callers :
       FetchFailedStep(c) /\ _data # None
       => /\ ret'[c] = _data
          /\ _data' = _data
          /\ _last_update' = _last_update]_vars

\* a forced refresh has failed and returned the old Snapshot
C4_Witness ==
  \E c \in Callers :
    /\ pc[c] = "done" /\ hist[c].how = "failed" /\ force_refresh[c]
    /\ ret[c] # None /\ ret[c] = _data

\* C5 as stated: a fetch that ends with zero clinics parsed leaves _data,
\* _last_update and the cache file as they were and returns the previous
\* Snapshot.
C5_ZeroClinicsIsFailure ==
  [][\A c \in Callers, raw \in RawOutcomes, w \in WriteOutcomes :
       /\ raw.kind = "page"
       /\ parse_cards(raw.cards) = <<>>
       /\ refresh_done(c, raw, w)
       => /\ UNCHANGED cacheVars
          /\ ret'[c] = _data]_vars

\* C6: a call that finds a refresh in flight does not invoke the fetcher;
\* when it stops waiting, by timeout too, it returns self._data as it is
\* then, without an exception and without touching the refresh.
C6_WaiterNeverFetches ==
  [][\A c \in Callers :
       /\ (get_schedule(c, TRUE) \/ get_schedule(c, FALSE)) /\ _is_updating
          => nfetch' = nfetch /\ pc'[c] \in {"waiting", "done"}
       /\ pc[c] = "waiting" /\ pc'[c] # "waiting"
          => /\ pc'[c] = "done"
             /\ ret'[c] = _data
             /\ ret'[c] # Raised
             /\ UNCHANGED <<nfetch, _data, _is_updating>>]_vars

\* a wait has timed out with nothing cached: the call returned None while
\* the refresh is still in flight
C6_Witness ==
  \E c \in Callers :
    /\ pc[c] = "done" /\ hist[c].how = "timeout" /\ ret[c] = None
    /\ _is_updating

\* C7 as stated: no caller is still in _wait_for_update later than timeout
\* seconds after it began waiting.
C7_BoundedWait ==
  \A c \in Callers : pc[c] = "waiting" => now - start[c] <= timeout

\* C8 as stated: once the refresh that was in flight when a caller began
\* to wait has ended, the loop of _wait_for_update lets the caller go; a
\* refresh started later does not hold it.
C8_ResumesAfterItsRefresh ==
  \A c \in Callers :
    pc[c] = "waiting" /\ (~_is_updating \/ hist[c].ep < nfetch)
    => wait_over(c)

\* C9: the step that ends a caller's refresh, whichever way, leaves
\* _is_updating false and the lock free; and a raised flag is lowered
\* eventually, given that the fetch terminates.
C9_FlagCleared ==
  /\ [][\A c \in Callers :
          pc[c] = "fetching" /\ pc'[c] # "fetching"
          => ~_is_updating' /\ ~_lock'.locked]_vars
  /\ (_is_updating ~> ~_is_updating)

\* a refresh has ended with an exception leaving the fetcher, the flag is
\* down and the lock free
C9_Witness ==
  \E c \in Callers :
    /\ pc[c] = "done" /\ hist[c].how = "raised"
    /\ ~_is_updating /\ ~_lock.locked

\* C10: an exception raised in the fetcher (the page load timeout, any
\* other Exception) ends the refresh as a failed fetch: the call returns
\* self._data as it was, the cache is untouched, nothing is raised.
C10_FetcherExceptionIsFailure ==
  [][\A c \in Callers, w \in WriteOutcomes :
       \A k \in {"page_load_timeout", "exception"} :
         refresh_done(c, [kind |-> k, cards |-> <<>>], w)
         => /\ ret'[c] = _data
            /\ ret'[c] # Raised
            /\ hist'[c].how = "failed"
            /\ UNCHANGED cacheVars]_vars

\* the first fetch has failed: the call returned None
C10_Witness ==
  \E c \in Callers :
    pc[c] = "done" /\ hist[c].how = "failed" /\ ret[c] = None /\ _data = None

\* a call has ended with the fetcher's result installed as self._data
ever_succeeded == \E c \in Callers : hist[c].how = "refreshed"

\* C11: once a fetch has succeeded self._data is never None again, and
\* every call of get_schedule that returns from then on (cache hit, waiter,
\* timed-out waiter, failed refresh) returns a Snapshot; so a call returns
\* None only if no fetch has succeeded so far.
C11_AbsentOnlyBeforeFirstSuccess ==
  /\ [](ever_succeeded => _data # None)
  /\ [][/\ _data # None => _data' # None
        /\ \A c \in Callers :
             /\ pc[c] # "done" /\ pc'[c] = "done"
             /\ hist'[c].how # "raised"
             /\ ever_succeeded
             => ret'[c] # None /\ ret'[c] = _data']_vars

\* after a successful fetch a waiter has timed out and a refresh has
\* failed: both calls returned the Snapshot
C11_Witness ==
  \E c, d \in Callers :
    /\ pc[c] = "done" /\ hist[c].how = "timeout" /\ ret[c] # None
    /\ pc[d] = "done" /\ hist[d].how = "failed" /\ ret[d] # None

\* C12: when the write of the cache file fails after a successful fetch,
\* the call still returns the new Snapshot, self._data and
\* self._last_update hold the new values, _is_updating is cleared and
\* nothing is raised.
C12_WriteFailureContained ==
  [][\A c \in Callers, raw \in RawOutcomes :
       /\ truthy(_fetch_schedule(raw, nfetch))
       /\ refresh_done(c, raw, "failed")
       => /\ pc'[c] = "done"
          /\ hist'[c].how = "refreshed"
          /\ ret'[c] = _fetch_schedule(raw, nfetch)
          /\ ret'[c] # Raised
          /\ _data' = ret'[c]
          /\ _last_update' = now
          /\ ~_is_updating'
          /\ ~_lock'.locked]_vars

\* a refresh has installed and returned a Snapshot that the file does not
\* hold: its write failed
C12_Witness ==
  \E c \in Callers :
    /\ pc[c] = "done" /\ hist[c].how = "refreshed"
    /\ ret[c] = _data /\ _last_update = now
    /\ cache_file # _data
    /\ ~_is_updating

\* C13: a call get_schedule(force_refresh=True) made while no refresh is
\* in flight becomes the refresher in the same step, also when the cached
\* Snapshot is within its time to live; the fetcher is invoked once for it
\* (no further invocation while it is in the fetcher); when its fetch
\* succeeds it returns the Snapshot of that very fetch, which is then
\* self._data.
C13_ForcedRefresh ==
  [][\A c \in Callers :
       /\ get_schedule(c, TRUE) /\ ~_is_updating
          => /\ pc'[c] = "fetching"
             /\ nfetch' = nfetch + 1
             /\ hist'[c].ep = nfetch'
             /\ _is_updating'
       /\ pc[c] = "fetching" => nfetch' = nfetch
       /\ pc[c] = "fetching" /\ force_refresh[c] /\ hist'[c].how = "refreshed"
          => /\ ret'[c] # None
             /\ ret'[c].timestamp = hist[c].ep
             /\ _data' = ret'[c]]_vars

\* a forced call made while the cached Snapshot was within its time to
\* live has fetched and returned a newer Snapshot
C13_Witness ==
  \E c, d \in Callers :
    /\ now = 0
    /\ pc[d] = "done" /\ hist[d].how = "refreshed"
    /\ pc[c] = "done" /\ hist[c].how = "refreshed" /\ force_refresh[c]
    /\ ret[d].timestamp < ret[c].timestamp
    /\ _data = ret[c]

\* the (clinic, day) positions of the DaySchedules stored in data
stored_days(data) ==
  IF data = None THEN {}
  ELSE UNION { { <<ci, di>> : di \in 1..Len(data.clinics[ci].schedule) } :
               ci \in 1..Len(data.clinics) }

\* the places in res of the records made from day di of clinic ci
records_of(res, ci, di) ==
  { k \in 1..Len(res) : res[k].clinic_idx = ci /\ res[k].day_idx = di }

\* C14: search_slots does not invoke the fetcher and leaves self._data,
\* self._last_update, self._is_updating and the file as they are, in every
\* state, a refresh in flight included; with nothing cached it returns the
\* empty list.
C14_SearchReadOnly ==
  [][\A q \in Queries :
       search_slots(q)
       => /\ UNCHANGED <<_data, _last_update, _is_updating, nfetch, cache_file,
                         _lock, pc, ret>>
          /\ _data = None => results' = <<>>]_vars

\* a search has found records and a refresh is in flight, its result not
\* yet installed
C14_Witness ==
  /\ query # NoQuery /\ results # <<>>
  /\ _is_updating /\ pc[1] = "fetching"
  /\ _data # None /\ _data.timestamp = 0

\* C15 as stated: for each stored day that passes the clinic and the day
\* filter, the record's times are the day's times t, in order, with
\* (time_from is None or t >= time_from) and (time_to is None or
\* t <= time_to); there is a record for the day exactly if that list is
\* not empty.
C15_TimeFilter ==
  [][\A q \in Queries :
       search_slots(q)
       => \A p \in stored_days(_data) :
            LET clinic == _data.clinics[p[1]]
                day_schedule == clinic.schedule[p[2]]
                Keep(t) == /\ (q.time_from = <<>> \/ str_le(q.time_from[1], t))
                           /\ (q.time_to = <<>> \/ str_le(t, q.time_to[1]))
                expected == SelectSeq(day_schedule.times, Keep)
                recs == records_of(results', p[1], p[2])
            IN /\ clinic_passes(clinic, q.clinic_name)
               /\ day_passes(day_schedule, q.day)
               => /\ recs # {} <=> expected # <<>>
                  /\ \A k \in recs : results'[k].available_times = expected]_vars

\* C15 amended: the same, a bound that is None or the empty string being
\* no bound.
C15_TimeFilterAmended ==
  [][\A q \in Queries :
       search_slots(q)
       => \A p \in stored_days(_data) :
            LET clinic == _data.clinics[p[1]]
                day_schedule == clinic.schedule[p[2]]
                Keep(t) == /\ (q.time_from \in {<<>>, <<"">>} \/ str_le(q.time_from[1], t))
                           /\ (q.time_to \in {<<>>, <<"">>} \/ str_le(t, q.time_to[1]))
                expected == SelectSeq(day_schedule.times, Keep)
                recs == records_of(results', p[1], p[2])
            IN /\ clinic_passes(clinic, q.clinic_name)
               /\ day_passes(day_schedule, q.day)
               => /\ recs # {} <=> expected # <<>>
                  /\ \A k \in recs : results'[k].available_times = expected]_vars

\* the search for "ALA" between 10:00 and 14:00 has returned one record,
\* with the time 14:00 of the two times of the day
C15_Witness ==
  /\ query.clinic_name = <<"ALA">>
  /\ query.time_from = <<"10:00">> /\ query.time_to = <<"14:00">>
  /\ Len(results) = 1
  /\ results[1].available_times = <<"14:00">>

\* the times of day_schedule that the time filter of q keeps
kept_times(day_schedule, q) ==
  IF given(q.time_from) \/ given(q.time_to)
  THEN filter_times(day_schedule.times, q.time_from, q.time_to)
  ELSE day_schedule.times

\* C16: with clinic_name given, a stored day that passes the day filter
\* and keeps a time has a record exactly if clinic_name, lower-cased,
\* occurs in the lower-cased name of its clinic, a clinic without a name
\* counting as named ""; so every record is of such a clinic.  With
\* clinic_name not given no clinic is skipped.
C16_ClinicFilter ==
  [][\A q \in Queries :
       search_slots(q)
       => /\ \A p \in stored_days(_data) :
               LET clinic == _data.clinics[p[1]]
                   day_schedule == clinic.schedule[p[2]]
                   name == IF clinic.clinic_name = <<>> THEN ""
                           ELSE clinic.clinic_name[1]
               IN day_passes(day_schedule, q.day) /\ kept_times(day_schedule, q) # <<>>
                  => (records_of(results', p[1], p[2]) # {}
                      <=> \/ q.clinic_name = <<>>
                          \/ contains(lower(q.clinic_name[1]), lower(name)))
          /\ \A k \in 1..Len(results') :
               \/ q.clinic_name = <<>>
               \/ /\ results'[k].clinic_name # <<>> \/ q.clinic_name[1] = ""
                  /\ contains(lower(q.clinic_name[1]),
                              lower(get(results'[k].clinic_name, "")))]_vars

\* the search for "med" has returned the day of "Almaty Med" and nothing of
\* the three other clinics, the one without a name among them
C16_Witness ==
  /\ query.clinic_name = <<"med">> /\ query.day = <<>>
  /\ query.time_from = <<>> /\ query.time_to = <<>>
  /\ Len(results) = 1
  /\ results[1].clinic_name = <<"Almaty Med">>
  /\ results[1].clinic_idx = 4

\* C17: with day given, a stored day of a clinic that is not skipped, and
\* which keeps a time, has a record exactly if day, lower-cased, occurs in
\* its lower-cased day label or in its lower-cased date label, a missing
\* label counting as ""; with day not given every such stored day has one.
C17_DayFilter ==
  [][\A q \in Queries :
       search_slots(q)
       => \A p \in stored_days(_data) :
            LET clinic == _data.clinics[p[1]]
                day_schedule == clinic.schedule[p[2]]
                day_label == IF day_schedule.day = <<>> THEN ""
                             ELSE day_schedule.day[1]
                date_label == IF day_schedule.date = <<>> THEN ""
                              ELSE day_schedule.date[1]
            IN clinic_passes(clinic, q.clinic_name) /\ kept_times(day_schedule, q) # <<>>
               => (records_of(results', p[1], p[2]) # {}
                   <=> \/ q.day = <<>>
                       \/ contains(lower(q.day[1]), lower(day_label))
                       \/ contains(lower(q.day[1]), lower(date_label)))]_vars

\* the search for the day "OCT", which occurs in date labels only, has
\* returned the three days that have a date label, not the one without
C17_Witness ==
  /\ query.day = <<"OCT">> /\ query.clinic_name = <<>>
  /\ query.time_from = <<>> /\ query.time_to = <<>>
  /\ Len(results) = 3
  /\ \A k \in 1..3 : results[k].date # <<>>

\* C18: the records are in the order of the Snapshot, clinics first, then
\* the days of a clinic, no two of them made from the same day; a search
\* without filters returns one record for each stored day and no other.
C18_OrderAndCount ==
  [][\A q \in Queries :
       search_slots(q)
       => /\ \A k, l \in 1..Len(results') :
               k < l => \/ results'[k].clinic_idx < results'[l].clinic_idx
                        \/ /\ results'[k].clinic_idx = results'[l].clinic_idx
                           /\ results'[k].day_idx < results'[l].day_idx
          /\ \A k \in 1..Len(results') :
               <<results'[k].clinic_idx, results'[k].day_idx>> \in stored_days(_data)
          /\ q = NoQuery
             => /\ Len(results') = Cardinality(stored_days(_data))
                /\ \A p \in stored_days(_data) :
                     Cardinality(records_of(results', p[1], p[2])) = 1]_vars

\* a search without filters of a Snapshot of four clinics, the third
\* without stored days, has returned the four stored days in order
C18_Witness ==
  /\ query = NoQuery
  /\ Len(results) = 4
  /\ << results[1].clinic_idx, results[2].clinic_idx,
        results[3].clinic_idx, results[4].clinic_idx >> = <<1, 2, 2, 4>>
  /\ results[2].day_idx = 1 /\ results[3].day_idx = 2

\* C19: every DaySchedule of the Snapshot held in self._data has at least
\* one time; a day block without times is not appended to a schedule.
C19_NoEmptyDays ==
  \A p \in stored_days(_data) :
    _data.clinics[p[1]].schedule[p[2]].times # <<>>

\* the card fetched had a day block with times and one without: the
\* Snapshot holds the first only
C19_Witness ==
  /\ _data # None
  /\ _data.total_clinics = 1
  /\ Len(CardA.days) = 2
  /\ _data.clinics[1].schedule = << CardA.days[1] >>

\* C20: _get_age_minutes returns 9999 as long as no fetch has succeeded,
\* failed fetches and the passing of time notwithstanding; once one has,
\* it returns the whole minutes gone by since self._last_update, rounded
\* down.
C20_AgeSentinel ==
  /\ ~ever_succeeded => _get_age_minutes = age_sentinel
  /\ ever_succeeded
     => /\ _last_update # NoTime
        /\ _get_age_minutes * 60 <= now - _last_update
        /\ now - _last_update < (_get_age_minutes + 1) * 60

\* a fetch has failed, time has passed and nothing was ever fetched: the
\* age is the sentinel
C20_Witness ==
  /\ \E c \in Callers : pc[c] = "done" /\ hist[c].how = "failed"
  /\ ~ever_succeeded
  /\ now > 0
  /\ _get_age_minutes = age_sentinel

\* C21: is_stale is true exactly when self._last_update is None or more
\* than 15 minutes (900 s) have gone by since it; at 900 s sharp the cache
\* is still fresh.  A call that evaluates it and is served from the cache
\* changes nothing of the cache.
C21_StalenessPolicy ==
  /\ [](/\ is_stale <=> (_last_update = NoTime \/ now - _last_update >= 15 * 60 + 1)
        /\ _last_update # NoTime /\ now - _last_update = 15 * 60 => ~is_stale)
  /\ [][\A c \in Callers :
          get_schedule(c, FALSE) /\ ~is_stale /\ _data # None
          => UNCHANGED <<cacheVars, _is_updating, nfetch, now>>]_vars

\* exactly the time to live after the fetch the cache is not stale, and a
\* call has been served from it
C21_Witness ==
  /\ _last_update # NoTime
  /\ now - _last_update = cache_duration
  /\ ~is_stale
  /\ \E c \in Callers : pc[c] = "done" /\ hist[c].how = "hit" /\ ret[c] = _data

\* C22: self._data and self._last_update are replaced in one step: no step
\* changes the one and leaves the other at its previous value, so no
\* caller reads the new Snapshot with the old time stamp or the reverse.
\* The step that replaces them is the end of a successful fetch and
\* installs what that fetch returned.
C22_AtomicReplacement ==
  [][/\ _data' # _data
        => /\ _last_update' = now
           /\ \E c \in Callers :
                /\ pc[c] = "fetching" /\ pc'[c] = "done"
                /\ _data' = ret'[c]
                /\ _data'.timestamp = nfetch
     /\ _last_update' # _last_update => _data' # _data
     /\ (_data' # _data /\ _last_update # NoTime /\ now > _last_update)
        => _last_update' # _last_update]_vars

\* a later fetch has replaced the Snapshot of the first and its time stamp
C22_Witness ==
  /\ _data # None /\ _data.timestamp = 2
  /\ _last_update > 0 /\ _last_update = now
  /\ \E d \in Callers :
       pc[d] = "done" /\ hist[d].how = "refreshed" /\ ret[d].timestamp = 1

\* C23: self._data, self._last_update and self._is_updating change only in
\* a step of the caller that holds the lock: the step in which it takes
\* the lock and raises the flag, or the step in which its fetch ends.  A
\* step of any other caller (cache hit, waiter, waiter that times out)
\* leaves the three as they are.
C23_OnlyRefresherWrites ==
  [][/\ <<_data, _last_update, _is_updating>>' # <<_data, _last_update, _is_updating>>
        => \E c \in Callers :
             \/ pc[c] = "fetching" /\ _lock.locked /\ pc'[c] = "done"
             \/ pc[c] # "fetching" /\ pc'[c] = "fetching" /\ _lock'.locked
     /\ \A c \in Callers :
          pc'[c] # pc[c] /\ pc[c] # "fetching" /\ pc'[c] # "fetching"
          => UNCHANGED <<_data, _last_update, _is_updating, _lock>>]_vars

\* a waiter has timed out and returned the cached Snapshot while the
\* refresh goes on under the lock
C23_Witness ==
  \E c, r \in Callers :
    /\ pc[c] = "done" /\ hist[c].how = "timeout"
    /\ ret[c] = _data /\ _data # None
    /\ pc[r] = "fetching" /\ _is_updating /\ _lock.locked

\* C24: self._is_updating is true in exactly the states in which a caller
\* is in _fetch_schedule.
C24_FlagIffFetching ==
  _is_updating <=> \E c \in Callers : pc[c] = "fetching"

\* the flag has been raised, lowered and raised again: the second fetch is
\* executing
C24_Witness ==
  /\ _is_updating
  /\ nfetch = 2
  /\ \E c, d \in Callers :
       /\ pc[c] = "fetching" /\ hist[c].ep = 2
       /\ pc[d] = "done" /\ hist[d].ep = 1 /\ invoked(d)

\* C25: the file is written only in the step in which the lock holder's
\* fetch ends with success, and with the Snapshot installed in that step;
\* that step makes one call of _save_to_file, and no step of a failed
\* fetch, a waiter or a cache hit makes any.
C25_FileWrittenByRefresherOnly ==
  [][/\ (cache_file' # cache_file \/ write_attempts' # write_attempts)
        => \E c \in Callers :
             /\ pc[c] = "fetching" /\ _lock.locked
             /\ pc'[c] = "done" /\ hist'[c].how = "refreshed"
             /\ _data' = ret'[c]
             /\ cache_file' \in {_data', cache_file}
     /\ \A c \in Callers :
          /\ pc[c] = "fetching" /\ hist'[c].how = "refreshed"
             => write_attempts' = write_attempts + 1
          /\ pc'[c] # pc[c] /\ hist'[c].how # "refreshed"
             => UNCHANGED <<cache_file, write_attempts>>]_vars

\* two fetches have succeeded and one has failed: two writes were
\* attempted, and the file holds the Snapshot in self._data
C25_Witness ==
  /\ write_attempts = 2
  /\ cache_file = _data /\ _data # None
  /\ \E c \in Callers : pc[c] = "done" /\ hist[c].how = "failed"

\* no call of get_schedule is in progress
quiescent == \A c \in Callers : pc[c] \in {"idle", "done"}

\* C26: self._is_updating is true only while the lock is held; and when no
\* call of get_schedule is in progress the flag is false and the lock free.
C26_FlagWithinLock ==
  /\ _is_updating => _lock.locked
  /\ quiescent => ~_is_updating /\ ~_lock.locked /\ _lock.waiters = <<>>

\* every caller's call is over, fetches have ended with success, with
\* failure and with an exception: the flag is down and the lock free
C26_Witness ==
  /\ \A c \in Callers : pc[c] = "done"
  /\ \A h \in {"refreshed", "failed", "raised"} :
       \E c \in Callers : hist[c].how = h
  /\ ~_is_updating /\ ~_lock.locked

\* C27: self._data is None exactly when self._last_update is None; once
\* set, neither goes back to None.
C27_DataIffStamp ==
  /\ []((_data = None) <=> (_last_update = NoTime))
  /\ [][/\ _data # None => _data' # None
        /\ _last_update # NoTime => _last_update' # NoTime]_vars

\* a refresh has failed with an empty cache and a later one has succeeded:
\* both attributes are set, and were None together before
C27_Witness ==
  /\ _data # None /\ _last_update # NoTime
  /\ \E c, d \in Callers :
       /\ pc[c] = "done" /\ hist[c].how = "failed" /\ ret[c] = None
       /\ pc[d] = "done" /\ hist[d].how = "refreshed" /\ ret[d] = _data

\* C28: a failed fetch is not remembered.  A call that arrives while the
\* cache is empty or stale and no refresh is in flight invokes the fetcher,
\* whatever went before; so calls made one after another while every
\* fetch fails cause one fetch each.
C28_NoNegativeCaching ==
  /\ [][\A c \in Callers :
          /\ get_schedule(c, TRUE) \/ get_schedule(c, FALSE)
          /\ ~_is_updating
          /\ _data = None \/ is_stale
          => /\ pc'[c] = "fetching"
             /\ nfetch' = nfetch + 1
             /\ hist'[c].ep = nfetch']_vars
  /\ []((\A c \in Callers : pc[c] = "done" => hist[c].how = "failed")
         /\ ~_is_updating
        => nfetch = Cardinality({ c \in Callers : pc[c] = "done" }))

\* three calls one after another, every fetch failed: three fetches
C28_Witness ==
  /\ \A c \in Callers : pc[c] = "done" /\ hist[c].how = "failed" /\ ret[c] = None
  /\ nfetch = NumCallers
  /\ NumCallers >= 3

\* C30: no caller waits for the lock: whoever comes to `async with
\* self._lock` finds it free, takes it in the same step and goes on to
\* the fetcher; the re-check under the lock never returns.
C30_NobodyBlocksOnLock ==
  /\ [](/\ \A c \in Callers : pc[c] # "lock_wait" /\ hist[c].how # "recheck"
        /\ _lock.waiters = <<>>)
  /\ [][/\ _lock'.locked /\ ~_lock.locked
           => \E c \in Callers :
                pc[c] = "idle" /\ pc'[c] = "fetching" /\ nfetch' = nfetch + 1
        /\ \A c \in Callers :
             /\ get_schedule(c, TRUE) \/ get_schedule(c, FALSE)
             /\ pc'[c] \notin {"done", "waiting"}
             => ~_lock.locked /\ pc'[c] = "fetching"]_vars

\* the lock has been taken, released and taken again, by a forced call,
\* while a third caller waits for the flag, not for the lock
C30_Witness ==
  \E c, d, e \in Callers :
    /\ pc[c] = "done" /\ invoked(c)
    /\ pc[d] = "fetching" /\ force_refresh[d] /\ hist[d].ep = 2 /\ _lock.locked
    /\ pc[e] = "waiting" /\ force_refresh[e]

\* C29: when the get_schedule call of the tool returns a Snapshot, that
\* Snapshot is self._data and self._last_update is its time stamp in the
\* state in which the tool searches and reports the age: the reply is
\* the search of the returned Snapshot and the age of its installation.
C29_ToolSeesReturnedSnapshot ==
  [][\A c \in Callers :
       /\ pc[c] # "done" /\ pc'[c] = "done"
       /\ ret'[c] # Raised /\ truthy(ret'[c])
       => /\ ret'[c] = _data'
          /\ _last_update' # NoTime
          /\ \A q \in ToolQueries :
               LET res == found(ret'[c], q)
               IN search_available_slots(q)' =
                    [found |-> Len(res),
                     data_age_minutes |-> (now' - _last_update') \div 60,
                     results |-> res]]_vars

\* a call has waited for a refresh and returned its Snapshot, and the next
\* refresh is in flight, its result not yet installed
C29_Witness ==
  \E c, r \in Callers :
    /\ pc[c] = "done" /\ hist[c].how = "waited" /\ ~force_refresh[c]
    /\ ret[c] = _data /\ _data # None
    /\ search_available_slots(NoQuery).found = 1
    /\ pc[r] = "fetching" /\ hist[r].ep > hist[c].ep

====
